---- MODULE Spec2Model ----
(***************************************************************************)
(* The round/scoring state machine of the water-pouring game.              *)
(*                                                                         *)
(* Two GameLogic classes exist in the repository: the timed one with the   *)
(* tiered difficulty curves (miniprogram/js/logic.js) and the untimed one  *)
(* with the simple curves (unnamed/part_000).  variant selects which of    *)
(* the two classes was constructed.  The page version of the game         *)
(* (unnamed/part_001, class WaterPouringGame) holds the same fields next   *)
(* to its DOM elements; it is the variant "dom".                           *)
(* Main (logic.js) drives the timed class from touches and frames.         *)
(*                                                                         *)
(* Numbers: water levels, pour speeds and tolerances are decimals with at  *)
(* most two fractional digits; they are kept as integers in hundredths of  *)
(* a percentage point, so 0.3 is 30 and 100 is 10000.  Scores and          *)
(* milliseconds are plain integers.  The returned (rounded) error is in    *)
(* tenths.  The arithmetic is exact decimal arithmetic.                    *)
(***************************************************************************)
EXTENDS Integers, Sequences, FiniteSets, TLC

\* ------------------------------------------------------------ bounds
\* rounds played: 'next' is taken only while round < MaxRound
MaxRound == 2
\* Math.random() is sampled at k / RandomGrain, k = 0..RandomGrain (the last
\* sample standing for the values just below 1)
RandomGrain == 1
\* elapsed times between two clock readings: 0 and 5000 / TimeGrain ms
TimeGrain == 2
\* while the pour runs, the calls of the player and the frames that take time
\* come at the first level at or after a multiple of StopGrid (hundredths);
\* the frames between them take 0 ms
StopGrid == 2200
\* a round whose success is answered by a retry can be won again: that is
\* done while attempts <= MaxRewin
MaxRewin == 1
\* the clock is kept relative: every reading of Date.now() is written as
\* EpochNow, and the time elapsed since the last reading is an input
EpochNow == 1000000
\* the storage throws at most MaxFaults times in one run
MaxFaults == 1

\* ------------------------------------------------------------ constants
\* variation of maxAttempts: a fourth attempt
maxAttempts_Four == 3 + 1
\* this.maxAttempts = 3
maxAttempts == 3
\* a full vessel: 100, in hundredths
FullLevel == 10000

Min(a, b) == IF a <= b THEN a ELSE b
Max(a, b) == IF a >= b THEN a ELSE b
Abs(a) == IF a >= 0 THEN a ELSE -a

\* Math.round(num / den): the nearest integer, halves towards +infinity
MathRound(num, den) == (2 * num + den) \div (2 * den)
\* Math.ceil(num / den)
MathCeil(num, den) == -((-num) \div den)

\* ------------------------------------------------------------ strings
Digits == <<"0", "1", "2", "3", "4", "5", "6", "7", "8", "9">>

\* Number.prototype.toString() of a non-negative integer
RECURSIVE NumToString(_)
NumToString(n) ==
    IF n < 10 THEN Digits[n + 1]
    ELSE NumToString(n \div 10) \o Digits[(n % 10) + 1]

DigitValue(c) == CHOOSE d \in 0..9 : Digits[d + 1] = c
IsDigit(c) == \E d \in 0..9 : Digits[d + 1] = c

\* parseInt(s) of a string without sign or blanks: the value of the longest
\* prefix of digits; NaN when there is none
NaN == -1
RECURSIVE ParseDigits(_, _)
ParseDigits(s, acc) ==
    IF s = "" \/ ~IsDigit(Head(s)) THEN acc
    ELSE ParseDigits(Tail(s), 10 * acc + DigitValue(Head(s)))
ParseInt(s) ==
    IF s = "" \/ ~IsDigit(Head(s)) THEN NaN ELSE ParseDigits(s, 0)

\* String.prototype.padStart(2, '0') of a number's string
PadStart2(n) == IF n < 10 THEN "0" \o NumToString(n) ELSE NumToString(n)

\* the template literal of confirmWaterLevel: month/day hour:minute
FormatTime(d) ==
    NumToString(d.month) \o "/" \o NumToString(d.date) \o " " \o
    PadStart2(d.hours) \o ":" \o PadStart2(d.minutes)

\* the readings new Date() gives
Dates == { [month |-> 11, date |-> 4, hours |-> 9, minutes |-> 5] }

\* ------------------------------------------------------------ storage
\* wx.getStorageSync gives '' for a key that is not stored
NoValue == ""
EmptyStorage == [waterGameHighScore |-> NoValue, waterGameHighScoreTime |-> NoValue]
\* what an earlier session of the game may have left in the storage
StoredAtStart ==
    { EmptyStorage,
      [waterGameHighScore |-> NumToString(85),
       waterGameHighScoreTime |-> FormatTime([month |-> 1, date |-> 9, hours |-> 23, minutes |-> 40])] }

\* ------------------------------------------------------------ state
VARIABLES
    variant,            \* "tiered" (logic.js) or "simple" (part_000)
    currentWaterLevel, targetWaterLevel, isPouring, round, attempts,
    score, highScore, highScoreTime, pourSpeed, allowedError,
    gameEnded, gameOver, newRecordAchieved,
    maxPourTime, remainingPourTime, lastUpdateTime, timeExpired,
    storage,            \* the wx storage: key -> string
    started,            \* history: startNewRound has run
    faults,             \* history: how often the storage has thrown
    wonRound,           \* history: a confirm has returned isSuccess = true
                        \* since the round was started
    dom,                \* the page of WaterPouringGame: the result modal, the
                        \* confirm button and the animation frame requests
    hasResult,          \* Main: the result modal is shown
    lastResult,         \* Main: the result the modal shows
    pending,            \* history: the result of the accepted confirm of this
                        \* round that no handleNextAction has consumed yet
    ret                 \* history: the last operation and what it returned

engine == <<currentWaterLevel, targetWaterLevel, isPouring, round, attempts,
            score, highScore, highScoreTime, pourSpeed, allowedError,
            gameEnded, gameOver, newRecordAchieved>>
timer == <<maxPourTime, remainingPourTime, lastUpdateTime, timeExpired>>
\* the fields of Main next to its game and its renderer
wiring == <<hasResult, lastResult>>
vars == <<variant, engine, timer, storage, faults, wonRound, dom, wiring, started,
          pending, ret>>

Timed == variant = "tiered"

\* a result record of confirmWaterLevel; error in tenths
NullResult == [null |-> TRUE, isSuccess |-> FALSE, error |-> 0, scoreChange |-> 0]
Result(s, e, c) == [null |-> FALSE, isSuccess |-> s, error |-> e, scoreChange |-> c]

\* what an operation gave back, and whether it wrote to console.error
Returned(op, val, res) == [op |-> op, val |-> val, result |-> res, logged |-> FALSE]
Logged(r) == [r EXCEPT !.logged = TRUE]

\* the page: modal = the result modal is shown, confirmDisabled = the confirm
\* button is disabled, frames = the requested animation frames that are
\* neither run nor cancelled, live = pourInterval names one of them
NoPage == [modal |-> FALSE, confirmDisabled |-> FALSE, frames |-> 0, live |-> FALSE]

\* ------------------------------------------------------------ curves
\* variation of TieredAllowedError: the second tier starts at 1.2
TieredAllowedError_Step(r) ==
    IF r <= 5 THEN 300 - (r - 1) * 50
    ELSE IF r <= 10 THEN Max(140 - (r - 5) * 20, 10)
    ELSE 10
\* calculateAllowedError(), tiered (logic.js)
TieredAllowedError(r) ==
    IF r <= 5 THEN 300 - (r - 1) * 50
    ELSE IF r <= 10 THEN Max(100 - (r - 5) * 20, 10)
    ELSE 10

\* calculateAllowedError(), simple (part_000)
SimpleAllowedError(r) == Max(500 - (r - 1) * 50, 100)

calculateAllowedError(v, r) ==
    IF v = "tiered" THEN TieredAllowedError(r) ELSE SimpleAllowedError(r)

\* variation of TieredPourSpeed: no limit
TieredPourSpeed_Unlimited(r) ==
    IF r <= 5 THEN 50 + (r - 1) * 5
    ELSE IF r <= 10 THEN 80 + (r - 6) * 5
    ELSE IF r <= 15 THEN 110 + (r - 11) * 5
    ELSE 140 + (r - 16) * 5
\* calculatePourSpeed(), tiered (logic.js)
TieredPourSpeed(r) ==
    LET speed == IF r <= 5 THEN 50 + (r - 1) * 5
                 ELSE IF r <= 10 THEN 80 + (r - 6) * 5
                 ELSE IF r <= 15 THEN 110 + (r - 11) * 5
                 ELSE 140 + (r - 16) * 5
    IN  Min(speed, 250)

\* calculatePourSpeed(), simple (part_000)
SimplePourSpeed(r) == Min(30 + (r - 1) * 5, 80)

calculatePourSpeed(v, r) ==
    IF v = "tiered" THEN TieredPourSpeed(r) ELSE SimplePourSpeed(r)

\* variation of calculateMaxPourTime: the seconds are rounded up, not the
\* tenths of a second
calculateMaxPourTime_WholeSeconds(target, r) ==
    LET speed == TieredPourSpeed(r)
        timeMs == MathCeil(13 * target, 10 * speed) * 100
    IN  Max(1000, Min(timeMs, 5000))
\* variation of calculateMaxPourTime: no limits
calculateMaxPourTime_Unclamped(target, r) ==
    MathCeil(13 * target, TieredPourSpeed(r)) * 100
\* calculateMaxPourTime(): target / speed * 1.3 seconds, up to the next 100 ms,
\* between 1 and 5 seconds
calculateMaxPourTime(target, r) ==
    LET speed == TieredPourSpeed(r)
        timeMs == MathCeil(13 * target, speed) * 100
    IN  Max(1000, Min(timeMs, 5000))

\* Math.floor(Math.random() * 71) + 20, in hundredths
RandomTargets ==
    { (Min(70, (71 * k) \div RandomGrain) + 20) * 100 : k \in 0..RandomGrain }

\* now - lastUpdateTime, for a clock that does not run backwards
DeltaTimes == {0, 5000 \div TimeGrain}

\* the levels of a running pour at which the environment acts
OnStopGrid(level, speed) == (level % StopGrid) < speed \/ level = FullLevel

\* the states in which the player calls the engine and the clock advances
InputPoint == ~isPouring \/ OnStopGrid(currentWaterLevel, pourSpeed)

\* ------------------------------------------------------------ construction
\* variation of initHighScore: the stored record is not read
initHighScore_NotRead(st) == 0
\* initHighScore(): score ? parseInt(score) : 0
initHighScore(st) ==
    IF st.waterGameHighScore # NoValue THEN ParseInt(st.waterGameHighScore) ELSE 0

\* the constructor of GameLogic
Init ==
    /\ variant \in {"tiered", "simple"}
    /\ storage \in StoredAtStart
    /\ currentWaterLevel = 0
    /\ targetWaterLevel = 0
    /\ isPouring = FALSE
    /\ round = 1
    /\ attempts = 0
    /\ score = 0
    /\ highScore = initHighScore(storage)
    /\ highScoreTime = storage.waterGameHighScoreTime
    /\ pourSpeed = 30
    /\ allowedError = IF variant = "tiered" THEN 300 ELSE 500
    /\ gameEnded = FALSE
    /\ gameOver = FALSE
    /\ newRecordAchieved = FALSE
    /\ maxPourTime = IF variant = "tiered" THEN 5000 ELSE 0
    /\ remainingPourTime = IF variant = "tiered" THEN 5000 ELSE 0
    /\ lastUpdateTime = 0
    /\ timeExpired = FALSE
    /\ dom = NoPage
    /\ faults = 0
    /\ wonRound = FALSE
    /\ hasResult = FALSE
    /\ lastResult = NullResult
    /\ started = FALSE
    /\ pending = NullResult
    /\ ret = Returned("constructor", "undefined", NullResult)

\* ------------------------------------------------------------ round set-up
\* variation of startNewRound: the tolerance and the fill rate are not
\* recomputed
startNewRound_KeepDifficulty(r, t) ==
    /\ targetWaterLevel' = t
    /\ currentWaterLevel' = 0
    /\ gameEnded' = FALSE
    /\ attempts' = 0
    /\ newRecordAchieved' = FALSE
    /\ UNCHANGED <<allowedError, pourSpeed>>
    /\ IF Timed
       THEN /\ timeExpired' = FALSE
            /\ maxPourTime' = calculateMaxPourTime(t, r)
            /\ remainingPourTime' = calculateMaxPourTime(t, r)
            /\ lastUpdateTime' = EpochNow
       ELSE UNCHANGED timer
    /\ started' = TRUE
    /\ pending' = NullResult
    /\ wonRound' = FALSE
    /\ UNCHANGED <<variant, isPouring, highScore, highScoreTime, storage>>
\* startNewRound() in round r with the target t that Math.random() gives; the
\* caller says what happens to round, score, gameOver
startNewRound(r, t) ==
    /\ targetWaterLevel' = t
    /\ currentWaterLevel' = 0
    /\ gameEnded' = FALSE
    /\ attempts' = 0
    /\ newRecordAchieved' = FALSE
    /\ allowedError' = calculateAllowedError(variant, r)
    /\ pourSpeed' = calculatePourSpeed(variant, r)
    /\ IF Timed
       THEN /\ timeExpired' = FALSE
            /\ maxPourTime' = calculateMaxPourTime(t, r)
            /\ remainingPourTime' = calculateMaxPourTime(t, r)
            /\ lastUpdateTime' = EpochNow
       ELSE UNCHANGED timer
    /\ started' = TRUE
    /\ pending' = NullResult
    /\ wonRound' = FALSE
    /\ UNCHANGED <<variant, isPouring, highScore, highScoreTime, storage>>

\* variation of retryCurrentRound: the attempts start again
retryCurrentRound_FreshAttempts ==
    /\ currentWaterLevel' = 0
    /\ gameEnded' = FALSE
    /\ attempts' = 0
    /\ IF Timed
       THEN /\ remainingPourTime' = maxPourTime
            /\ timeExpired' = FALSE
            /\ lastUpdateTime' = EpochNow
            /\ UNCHANGED maxPourTime
       ELSE UNCHANGED timer
    /\ pending' = NullResult
    /\ UNCHANGED <<variant, targetWaterLevel, isPouring, round, score,
                   highScore, highScoreTime, pourSpeed, allowedError, gameOver,
                   newRecordAchieved, storage, wonRound, started>>
\* variation of retryCurrentRound: the expired countdown is not started again
retryCurrentRound_KeepsExpiry ==
    /\ currentWaterLevel' = 0
    /\ gameEnded' = FALSE
    /\ IF Timed
       THEN /\ lastUpdateTime' = EpochNow
            /\ UNCHANGED <<maxPourTime, remainingPourTime, timeExpired>>
       ELSE UNCHANGED timer
    /\ pending' = NullResult
    /\ UNCHANGED <<variant, targetWaterLevel, isPouring, round, attempts, score,
                   highScore, highScoreTime, pourSpeed, allowedError, gameOver,
                   newRecordAchieved, storage, wonRound, started>>
\* retryCurrentRound()
retryCurrentRound ==
    /\ currentWaterLevel' = 0
    /\ gameEnded' = FALSE
    /\ IF Timed
       THEN /\ remainingPourTime' = maxPourTime
            /\ timeExpired' = FALSE
            /\ lastUpdateTime' = EpochNow
            /\ UNCHANGED maxPourTime
       ELSE UNCHANGED timer
    /\ pending' = NullResult
    /\ UNCHANGED <<variant, targetWaterLevel, isPouring, round, attempts, score,
                   highScore, highScoreTime, pourSpeed, allowedError, gameOver,
                   newRecordAchieved, storage, wonRound, started>>

\* variation of resetGame: the score is kept
resetGame_KeepScore(t) ==
    /\ round' = 1
    /\ gameOver' = FALSE
    /\ UNCHANGED score
    /\ startNewRound(1, t)
\* resetGame(): the 0.3 and 5 it assigns are overwritten by startNewRound
resetGame(t) ==
    /\ round' = 1
    /\ score' = 0
    /\ gameOver' = FALSE
    /\ startNewRound(1, t)

\* Main.start(): the first startNewRound.  Main runs it in its constructor,
\* before any frame or input is handled, so the other operations wait for it.
StartNewRound ==
    /\ ~started
    /\ \E t \in RandomTargets : startNewRound(round, t)
    /\ UNCHANGED <<round, score, gameOver, dom, faults>>
    /\ ret' = Returned("startNewRound", "undefined", NullResult)
    /\ UNCHANGED wiring

ResetGame ==
    /\ started
    /\ InputPoint
    /\ \E t \in RandomTargets : resetGame(t)
    /\ ret' = Returned("resetGame", "undefined", NullResult)
    /\ UNCHANGED <<dom, faults>>
    /\ UNCHANGED wiring

\* ------------------------------------------------------------ pouring
\* variation of PourBlocked: the expired countdown does not block
PourBlocked_NoExpiry == isPouring \/ gameEnded
\* variation of PourBlocked: the ended round does not block
PourBlocked_IgnoresEnded == isPouring \/ (Timed /\ timeExpired)
\* the guard of startPouring()
PourBlocked == isPouring \/ gameEnded \/ (Timed /\ timeExpired)

StartPouring ==
    /\ started
    /\ InputPoint
    /\ isPouring' = IF PourBlocked THEN isPouring ELSE TRUE
    /\ ret' = Returned("startPouring", "undefined", NullResult)
    /\ UNCHANGED <<variant, currentWaterLevel, targetWaterLevel, round, attempts,
                   score, highScore, highScoreTime, pourSpeed, allowedError,
                   gameEnded, gameOver, newRecordAchieved, timer, storage,
                   dom, faults, wonRound, started, pending>>
    /\ UNCHANGED wiring

StopPouring ==
    /\ started
    /\ InputPoint
    /\ isPouring' = IF ~isPouring THEN isPouring ELSE FALSE
    /\ ret' = Returned("stopPouring", "undefined", NullResult)
    /\ UNCHANGED <<variant, currentWaterLevel, targetWaterLevel, round, attempts,
                   score, highScore, highScoreTime, pourSpeed, allowedError,
                   gameEnded, gameOver, newRecordAchieved, timer, storage,
                   dom, faults, wonRound, started, pending>>
    /\ UNCHANGED wiring

\* variation of Poured: no limit
Poured_Unclamped(level, speed) == level + speed
\* currentWaterLevel += pourSpeed, limited to 100
Poured(level, speed) == Min(level + speed, FullLevel)

\* the part of update() that raises the level
PourStep ==
    /\ currentWaterLevel' = Poured(currentWaterLevel, pourSpeed)
    /\ isPouring' = (currentWaterLevel + pourSpeed < FullLevel)

\* variation of TimedUpdate: the countdown runs only while the pour runs
TimedUpdate_RunsWhilePouring(dt) ==
    LET now == lastUpdateTime + dt
        deltaTime == now - lastUpdateTime
        remaining == IF isPouring THEN remainingPourTime - deltaTime
                                  ELSE remainingPourTime
    IN  IF gameEnded
        THEN /\ ret' = Returned("update", "false", NullResult)
             /\ UNCHANGED <<currentWaterLevel, isPouring, timer>>
        ELSE /\ ret' = Returned("update", "true", NullResult)
             /\ lastUpdateTime' = EpochNow
             /\ UNCHANGED maxPourTime
             /\ IF remaining <= 0
                THEN /\ remainingPourTime' = 0
                     /\ timeExpired' = TRUE
                     /\ isPouring' = FALSE
                     /\ UNCHANGED currentWaterLevel
                ELSE /\ remainingPourTime' = remaining
                     /\ UNCHANGED timeExpired
                     /\ IF isPouring
                        THEN PourStep
                        ELSE UNCHANGED <<currentWaterLevel, isPouring>>
\* variation of TimedUpdate: the tick on which the countdown expires still
\* raises the level of a running pour
TimedUpdate_PoursOnExpiry(dt) ==
    LET now == lastUpdateTime + dt
        deltaTime == now - lastUpdateTime
        remaining == remainingPourTime - deltaTime
    IN  IF gameEnded
        THEN /\ ret' = Returned("update", "false", NullResult)
             /\ UNCHANGED <<currentWaterLevel, isPouring, timer>>
        ELSE /\ ret' = Returned("update", "true", NullResult)
             /\ lastUpdateTime' = EpochNow
             /\ UNCHANGED maxPourTime
             /\ IF remaining <= 0
                THEN /\ remainingPourTime' = 0
                     /\ timeExpired' = TRUE
                     /\ isPouring' = FALSE
                     /\ currentWaterLevel' =
                           IF isPouring THEN Poured(currentWaterLevel, pourSpeed)
                                        ELSE currentWaterLevel
                ELSE /\ remainingPourTime' = remaining
                     /\ UNCHANGED timeExpired
                     /\ IF isPouring
                        THEN PourStep
                        ELSE UNCHANGED <<currentWaterLevel, isPouring>>
\* update() of logic.js, dt after the last clock reading
TimedUpdate(dt) ==
    LET now == lastUpdateTime + dt
        deltaTime == now - lastUpdateTime
        remaining == remainingPourTime - deltaTime
    IN  IF gameEnded
        THEN /\ ret' = Returned("update", "false", NullResult)
             /\ UNCHANGED <<currentWaterLevel, isPouring, timer>>
        ELSE /\ ret' = Returned("update", "true", NullResult)
             /\ lastUpdateTime' = EpochNow
             /\ UNCHANGED maxPourTime
             /\ IF remaining <= 0
                THEN /\ remainingPourTime' = 0
                     /\ timeExpired' = TRUE
                     /\ isPouring' = FALSE
                     /\ UNCHANGED currentWaterLevel
                ELSE /\ remainingPourTime' = remaining
                     /\ UNCHANGED timeExpired
                     /\ IF isPouring
                        THEN PourStep
                        ELSE UNCHANGED <<currentWaterLevel, isPouring>>

\* variation of SimpleUpdate: a tick that does nothing reports a change
SimpleUpdate_AlwaysChanged ==
    IF ~isPouring \/ gameEnded
    THEN /\ ret' = Returned("update", "true", NullResult)
         /\ UNCHANGED <<currentWaterLevel, isPouring, timer>>
    ELSE /\ ret' = Returned("update", "true", NullResult)
         /\ PourStep
         /\ UNCHANGED timer
\* update() of part_000
SimpleUpdate ==
    IF ~isPouring \/ gameEnded
    THEN /\ ret' = Returned("update", "false", NullResult)
         /\ UNCHANGED <<currentWaterLevel, isPouring, timer>>
    ELSE /\ ret' = Returned("update", "true", NullResult)
         /\ PourStep
         /\ UNCHANGED timer

\* variation of Update: the tick on which the countdown expires ends the round
Update_ExpiryEnds ==
    /\ started
    /\ IF Timed
       THEN \E dt \in (IF InputPoint THEN DeltaTimes ELSE {0}) : TimedUpdate(dt)
       ELSE SimpleUpdate
    /\ gameEnded' = (gameEnded \/ (Timed /\ timeExpired'))
    /\ UNCHANGED <<variant, targetWaterLevel, round, attempts, score, highScore,
                   highScoreTime, pourSpeed, allowedError, gameOver,
                   newRecordAchieved, storage, dom, faults, wonRound, started,
                   pending>>
    /\ UNCHANGED wiring
\* one frame of the loop: update()
Update ==
    /\ started
    /\ IF Timed
       THEN \E dt \in (IF InputPoint THEN DeltaTimes ELSE {0}) : TimedUpdate(dt)
       ELSE SimpleUpdate
    /\ UNCHANGED <<variant, targetWaterLevel, round, attempts, score, highScore,
                   highScoreTime, pourSpeed, allowedError, gameEnded, gameOver,
                   newRecordAchieved, storage, dom, faults, wonRound, started,
                   pending>>
    /\ UNCHANGED wiring

\* ------------------------------------------------------------ confirm
\* Math.abs(currentWaterLevel - targetWaterLevel)
ConfirmError(level, target) == Abs(level - target)

\* variation of RoundedError: the second decimal is cut off
RoundedError_Truncated(error) == error \div 10
\* Math.round(error * 10) / 10, in tenths
RoundedError(error) == MathRound(error, 10)

\* variation of IsSuccess: the edge of the tolerance fails
IsSuccess_Strict(error, allowed) == error < allowed
\* error <= allowedError
IsSuccess(error, allowed) == error <= allowed

\* variation of ScoreChange: the base score does not depend on the round
ScoreChange_FlatBase(r, allowed, error) ==
    MathRound((50 + 10) * 10 + (allowed - error), 10)
\* Math.round(baseScore + (allowedError - error) * 10), baseScore = 50 + round * 10
ScoreChange(r, allowed, error) ==
    MathRound((50 + r * 10) * 10 + (allowed - error), 10)

\* variation of IsGameOver: the game ends one attempt later
IsGameOver_Late(isSuccess, att) == ~isSuccess /\ att > maxAttempts
\* !isSuccess && attempts >= maxAttempts, attempts after the increment
IsGameOver(isSuccess, att) == ~isSuccess /\ att >= maxAttempts

\* the record confirmWaterLevel() returns from this state
ConfirmResult ==
    LET error == ConfirmError(currentWaterLevel, targetWaterLevel)
        isSuccess == IsSuccess(error, allowedError)
    IN  Result(isSuccess, RoundedError(error),
               IF isSuccess THEN ScoreChange(round, allowedError, error) ELSE 0)

\* variation of SaveHighScore: the time is not stored
SaveHighScore_ScoreOnly(st, best, time) ==
    [st EXCEPT !.waterGameHighScore = NumToString(best)]
\* the try block of confirmWaterLevel(): both values written
SaveHighScore(st, best, time) ==
    [st EXCEPT !.waterGameHighScore = NumToString(best),
               !.waterGameHighScoreTime = time]

\* variation of ConfirmRefused: a finished round is judged again
ConfirmRefused_Never == FALSE
\* setStorageSync / removeStorageSync may throw: at the first call of the try
\* block, at the second, or not at all
StorageFaults == {"first", "second"}

\* the storage after the try block of confirmWaterLevel() with that fault
StoreWritten(st, best, time, fault) ==
    IF fault = "first" THEN st
    ELSE IF fault = "second" THEN [st EXCEPT !.waterGameHighScore = NumToString(best)]
    ELSE SaveHighScore(st, best, time)

\* if (this.gameEnded) return null
ConfirmRefused == gameEnded

\* variation of BeatsHighScore: the comparison turned round
BeatsHighScore_Below(newScore, best) == newScore < best
\* this.score > this.highScore, score after the award
BeatsHighScore(newScore, best) == newScore > best

\* confirmWaterLevel(); fault says where the storage throws if it is written
confirmWaterLevel(fault) ==
    /\ IF ConfirmRefused
       THEN /\ ret' = Returned("confirmWaterLevel", "null", NullResult)
            /\ UNCHANGED <<variant, engine, timer, storage, dom, faults, wonRound,
                           started, pending>>
       ELSE
         LET result == ConfirmResult
             newScore == score + result.scoreChange
         IN  /\ gameEnded' = TRUE
             /\ isPouring' = FALSE
             /\ attempts' = attempts + 1
             /\ score' = newScore
             /\ IF BeatsHighScore(newScore, highScore)
                THEN \E d \in Dates :
                        /\ highScore' = newScore
                        /\ highScoreTime' = FormatTime(d)
                        /\ storage' = StoreWritten(storage, newScore, FormatTime(d), fault)
                        /\ newRecordAchieved' = TRUE
                ELSE UNCHANGED <<highScore, highScoreTime, storage, newRecordAchieved>>
             /\ gameOver' = IF IsGameOver(result.isSuccess, attempts + 1)
                            THEN TRUE ELSE gameOver
             /\ ret' = IF fault \in StorageFaults /\ BeatsHighScore(newScore, highScore)
                       THEN Logged(Returned("confirmWaterLevel", "result", result))
                       ELSE Returned("confirmWaterLevel", "result", result)
             /\ pending' = result
             /\ wonRound' = (wonRound \/ result.isSuccess)
             /\ UNCHANGED <<variant, currentWaterLevel, targetWaterLevel, round,
                            pourSpeed, allowedError, timer, dom, started>>
             /\ faults' = IF fault \in StorageFaults /\ BeatsHighScore(newScore, highScore)
                          THEN faults + 1 ELSE faults

\* the storage works
ConfirmWaterLevel ==
    /\ started
    /\ InputPoint
    /\ confirmWaterLevel("none")
    /\ UNCHANGED wiring

\* a new record whose write throws
ConfirmWriteFails ==
    /\ started
    /\ InputPoint
    /\ faults < MaxFaults
    /\ ~ConfirmRefused
    /\ BeatsHighScore(score + ConfirmResult.scoreChange, highScore)
    /\ \E fault \in StorageFaults : confirmWaterLevel(fault)
    /\ UNCHANGED wiring

\* ------------------------------------------------------------ next action
\* what a caller may pass to handleNextAction: the pending result, nothing, or
\* the result of some earlier confirm
PrevResults == {pending, NullResult, Result(TRUE, 20, 70), Result(FALSE, 200, 0)}

\* the call follows a confirm and passes that confirm's result
OnProtocol(prevResult) == ~pending.null /\ prevResult = pending

\* variation of Truthy: any result counts as a success
Truthy_AnyResult(prevResult) == ~prevResult.null
\* prevResult && prevResult.isSuccess
Truthy(prevResult) == ~prevResult.null /\ prevResult.isSuccess

\* variation of handleNextAction: a lost game is retried, not reset
handleNextAction_NoReset(prevResult) ==
    IF Truthy(prevResult)
    THEN /\ round < MaxRound
         /\ round' = round + 1
         /\ \E t \in RandomTargets : startNewRound(round + 1, t)
         /\ UNCHANGED <<score, gameOver>>
         /\ ret' = Returned("handleNextAction", "next", NullResult)
    ELSE /\ retryCurrentRound
         /\ ret' = Returned("handleNextAction", "retry", NullResult)
\* handleNextAction(prevResult)
handleNextAction(prevResult) ==
    IF gameOver
    THEN /\ \E t \in RandomTargets : resetGame(t)
         /\ ret' = Returned("handleNextAction", "reset", NullResult)
    ELSE IF Truthy(prevResult)
    THEN /\ round < MaxRound
         /\ round' = round + 1
         /\ \E t \in RandomTargets : startNewRound(round + 1, t)
         /\ UNCHANGED <<score, gameOver>>
         /\ ret' = Returned("handleNextAction", "next", NullResult)
    ELSE /\ retryCurrentRound
         /\ ret' = Returned("handleNextAction", "retry", NullResult)

\* the call Main makes: once per result, with that result
HandleNextAction ==
    /\ started
    /\ InputPoint
    /\ OnProtocol(pending)
    /\ handleNextAction(pending)
    /\ UNCHANGED <<dom, faults>>
    /\ UNCHANGED wiring

\* any other call: with no result pending, or with another argument
MisuseNextAction ==
    /\ started
    /\ InputPoint
    /\ \E prevResult \in PrevResults :
          /\ ~OnProtocol(prevResult)
          /\ (pending.isSuccess /\ ~Truthy(prevResult)) => attempts <= MaxRewin
          /\ handleNextAction(prevResult)
    /\ UNCHANGED <<dom, faults>>
    /\ UNCHANGED wiring

\* ------------------------------------------------------------ record
\* variation of StoreRemoved: the time stays stored
StoreRemoved_KeepsTime(st, fault) ==
    IF fault = "first" THEN st
    ELSE [st EXCEPT !.waterGameHighScore = NoValue]
\* the storage after the try block of clearHighScore() with that fault
StoreRemoved(st, fault) ==
    IF fault = "first" THEN st
    ELSE IF fault = "second" THEN [st EXCEPT !.waterGameHighScore = NoValue]
    ELSE [st EXCEPT !.waterGameHighScore = NoValue,
                    !.waterGameHighScoreTime = NoValue]

\* variation of clearHighScore: the score of the game is cleared too
clearHighScore_AlsoScore(fault) ==
    /\ highScore' = 0
    /\ highScoreTime' = ""
    /\ score' = 0
    /\ storage' = StoreRemoved(storage, fault)
    /\ ret' = Returned("clearHighScore", "undefined", NullResult)
    /\ UNCHANGED <<variant, currentWaterLevel, targetWaterLevel, isPouring, round,
                   attempts, pourSpeed, allowedError, gameEnded, gameOver,
                   newRecordAchieved, timer, dom, faults, wonRound, started,
                   pending>>
\* clearHighScore(); fault says where the storage throws
clearHighScore(fault) ==
    /\ highScore' = 0
    /\ highScoreTime' = ""
    /\ storage' = StoreRemoved(storage, fault)
    /\ ret' = IF fault \in StorageFaults
              THEN Logged(Returned("clearHighScore", "undefined", NullResult))
              ELSE Returned("clearHighScore", "undefined", NullResult)
    /\ UNCHANGED <<variant, currentWaterLevel, targetWaterLevel, isPouring, round,
                   attempts, score, pourSpeed, allowedError, gameEnded, gameOver,
                   newRecordAchieved, timer, dom, wonRound, started, pending>>
    /\ faults' = IF fault \in StorageFaults THEN faults + 1 ELSE faults

\* a removal throws
ClearRemoveFails ==
    /\ started
    /\ InputPoint
    /\ faults < MaxFaults
    /\ \E fault \in StorageFaults : clearHighScore(fault)
    /\ UNCHANGED wiring

\* the storage works
ClearHighScore ==
    /\ started
    /\ InputPoint
    /\ clearHighScore("none")
    /\ UNCHANGED wiring

\* ------------------------------------------------------------ specification
Next ==
    \/ StartNewRound
    \/ ResetGame
    \/ StartPouring
    \/ StopPouring
    \/ Update
    \/ ConfirmWaterLevel
    \/ HandleNextAction
    \/ ClearHighScore

Spec == Init /\ [][Next]_vars

\* the engine under a caller that does not keep to the protocol
NextOpen == Next \/ MisuseNextAction

SpecOpen == Init /\ [][NextOpen]_vars

\* the engine with a storage that may throw.  A getStorageSync that throws in
\* initHighScore() leaves highScore = 0 and highScoreTime = '' whatever is stored.
InitReadFails ==
    /\ variant \in {"tiered", "simple"}
    /\ storage \in StoredAtStart \ {EmptyStorage}
    /\ currentWaterLevel = 0
    /\ targetWaterLevel = 0
    /\ isPouring = FALSE
    /\ round = 1
    /\ attempts = 0
    /\ score = 0
    /\ highScore = 0
    /\ highScoreTime = ""
    /\ pourSpeed = 30
    /\ allowedError = IF variant = "tiered" THEN 300 ELSE 500
    /\ gameEnded = FALSE
    /\ gameOver = FALSE
    /\ newRecordAchieved = FALSE
    /\ maxPourTime = IF variant = "tiered" THEN 5000 ELSE 0
    /\ remainingPourTime = IF variant = "tiered" THEN 5000 ELSE 0
    /\ lastUpdateTime = 0
    /\ timeExpired = FALSE
    /\ dom = NoPage
    /\ faults = 1
    /\ wonRound = FALSE
    /\ hasResult = FALSE
    /\ lastResult = NullResult
    /\ started = FALSE
    /\ pending = NullResult
    /\ ret = Returned("constructor", "undefined", NullResult)

InitFaulty == Init \/ InitReadFails

\* the faulty storage is followed through the first round of a game: a failed
\* attempt is retried and a lost game is reset, a won round is not left
RetryOrReset == HandleNextAction /\ (gameOver \/ ~pending.isSuccess)

NextFaulty ==
    \/ StartNewRound
    \/ ResetGame
    \/ StartPouring
    \/ StopPouring
    \/ Update
    \/ ConfirmWaterLevel
    \/ ConfirmWriteFails
    \/ RetryOrReset
    \/ ClearHighScore
    \/ ClearRemoveFails

SpecFaulty == InitFaulty /\ [][NextFaulty]_vars

\* ------------------------------------------------------------ the page
\* WaterPouringGame (part_001): the same fields, no countdown, no record time
\* and no newRecordAchieved; the water rises in pour(), an animation frame
\* callback that requests itself again; the result is shown in a modal and
\* handleNextAction() takes no argument.  localStorage is called without
\* try/catch.

\* parseInt(localStorage.getItem('waterGameHighScore') || '0')
DomInitHighScore(st) ==
    IF st.waterGameHighScore # NoValue THEN ParseInt(st.waterGameHighScore)
    ELSE ParseInt("0")

\* the constructor up to the call of init()
InitDom ==
    /\ variant = "dom"
    /\ storage \in StoredAtStart
    /\ currentWaterLevel = 0
    /\ targetWaterLevel = 0
    /\ isPouring = FALSE
    /\ round = 1
    /\ attempts = 0
    /\ score = 0
    /\ highScore = DomInitHighScore(storage)
    /\ highScoreTime = ""
    /\ pourSpeed = 30
    /\ allowedError = 500
    /\ gameEnded = FALSE
    /\ gameOver = FALSE
    /\ newRecordAchieved = FALSE
    /\ maxPourTime = 0
    /\ remainingPourTime = 0
    /\ lastUpdateTime = 0
    /\ timeExpired = FALSE
    /\ dom = NoPage
    /\ faults = 0
    /\ wonRound = FALSE
    /\ hasResult = FALSE
    /\ lastResult = NullResult
    /\ started = FALSE
    /\ pending = NullResult
    /\ ret = Returned("constructor", "undefined", NullResult)

\* localStorage.getItem() throws in the constructor: the exception leaves the
\* constructor, no game is built and no handler is bound
DomConstructorThrows ==
    /\ ~started
    /\ ret.val # "throws"
    /\ faults < MaxFaults
    /\ faults' = faults + 1
    /\ ret' = Returned("constructor", "throws", NullResult)
    /\ UNCHANGED <<variant, engine, timer, storage, dom, wonRound, started, pending>>
    /\ UNCHANGED wiring

\* init(): bindEvents(), updateHighScoreDisplay(), startNewRound()
DomInit ==
    /\ ~started
    /\ ret.val # "throws"
    /\ \E t \in RandomTargets : startNewRound(round, t)
    /\ dom' = [dom EXCEPT !.confirmDisabled = TRUE]
    /\ ret' = Returned("init", "undefined", NullResult)
    /\ UNCHANGED <<round, score, gameOver, faults>>
    /\ UNCHANGED wiring

\* variation of FrameCancelled: the request is not cancelled
FrameCancelled_Kept(page) == page
\* cancelAnimationFrame(this.pourInterval)
FrameCancelled(page) ==
    IF page.live THEN [page EXCEPT !.frames = @ - 1, !.live = FALSE] ELSE page

\* the pour button is pressed
DomStartPouring ==
    /\ started
    /\ InputPoint
    /\ IF isPouring \/ gameEnded
       THEN UNCHANGED <<isPouring, dom>>
       ELSE /\ isPouring' = TRUE
            /\ dom' = [dom EXCEPT !.confirmDisabled = FALSE,
                                  !.frames = @ + 1, !.live = TRUE]
    /\ ret' = Returned("startPouring", "undefined", NullResult)
    /\ UNCHANGED <<variant, currentWaterLevel, targetWaterLevel, round, attempts,
                   score, highScore, highScoreTime, pourSpeed, allowedError,
                   gameEnded, gameOver, newRecordAchieved, timer, storage,
                   faults, wonRound, started, pending>>
    /\ UNCHANGED wiring

\* the pour button is released
DomStopPouring ==
    /\ started
    /\ InputPoint
    /\ IF ~isPouring
       THEN UNCHANGED <<isPouring, dom>>
       ELSE /\ isPouring' = FALSE
            /\ dom' = FrameCancelled(dom)
    /\ ret' = Returned("stopPouring", "undefined", NullResult)
    /\ UNCHANGED <<variant, currentWaterLevel, targetWaterLevel, round, attempts,
                   score, highScore, highScoreTime, pourSpeed, allowedError,
                   gameEnded, gameOver, newRecordAchieved, timer, storage,
                   faults, wonRound, started, pending>>
    /\ UNCHANGED wiring

\* pour(): a requested animation frame runs; firedLive says whether it is the
\* one pourInterval names
DomPour ==
    /\ started
    /\ dom.frames > 0
    /\ \E firedLive \in BOOLEAN :
          /\ firedLive => dom.live
          /\ ~firedLive => dom.frames > (IF dom.live THEN 1 ELSE 0)
          /\ LET fired == [dom EXCEPT !.frames = @ - 1,
                                      !.live = IF firedLive THEN FALSE ELSE @]
             IN  IF ~isPouring \/ gameEnded
                 THEN /\ dom' = fired
                      /\ UNCHANGED <<currentWaterLevel, isPouring>>
                 ELSE /\ currentWaterLevel' = Poured(currentWaterLevel, pourSpeed)
                      /\ IF currentWaterLevel + pourSpeed >= FullLevel
                         THEN /\ isPouring' = FALSE
                              /\ dom' = FrameCancelled(fired)
                         ELSE /\ isPouring' = TRUE
                              /\ dom' = [fired EXCEPT !.frames = @ + 1, !.live = TRUE]
    /\ ret' = Returned("pour", "undefined", NullResult)
    /\ UNCHANGED <<variant, targetWaterLevel, round, attempts, score, highScore,
                   highScoreTime, pourSpeed, allowedError, gameEnded, gameOver,
                   newRecordAchieved, timer, storage, faults, wonRound, started,
                   pending>>
    /\ UNCHANGED wiring

\* confirmWaterLevel() of the page; throws says that localStorage.setItem()
\* throws.  The result handed to showResult() is kept as the returned result.
domConfirmWaterLevel(throws) ==
    IF gameEnded
    THEN /\ ret' = Returned("confirmWaterLevel", "undefined", NullResult)
         /\ UNCHANGED <<variant, engine, timer, storage, dom, faults, wonRound,
                        started, pending>>
    ELSE
      LET result == ConfirmResult
          newScore == score + result.scoreChange
          stopped == IF isPouring THEN FrameCancelled(dom) ELSE dom
      IN  /\ gameEnded' = TRUE
          /\ isPouring' = FALSE
          /\ attempts' = attempts + 1
          /\ score' = newScore
          /\ highScore' = IF newScore > highScore THEN newScore ELSE highScore
          /\ wonRound' = (wonRound \/ result.isSuccess)
          /\ IF newScore > highScore /\ throws
             THEN /\ faults' = faults + 1
                  /\ dom' = stopped
                  /\ ret' = Returned("confirmWaterLevel", "throws", NullResult)
                  /\ UNCHANGED <<storage, gameOver, pending>>
             ELSE /\ storage' = IF newScore > highScore
                                THEN [storage EXCEPT !.waterGameHighScore = NumToString(newScore)]
                                ELSE storage
                  /\ gameOver' = IF IsGameOver(result.isSuccess, attempts + 1)
                                 THEN TRUE ELSE gameOver
                  /\ dom' = [stopped EXCEPT !.modal = TRUE]
                  /\ ret' = Returned("confirmWaterLevel", "result", result)
                  /\ pending' = result
                  /\ UNCHANGED faults
          /\ UNCHANGED <<variant, currentWaterLevel, targetWaterLevel, round,
                         highScoreTime, pourSpeed, allowedError, newRecordAchieved,
                         timer, started>>

\* the confirm button is clicked; a disabled button gives no click
DomConfirmWaterLevel ==
    /\ started
    /\ InputPoint
    /\ ~dom.confirmDisabled
    /\ domConfirmWaterLevel(FALSE)
    /\ UNCHANGED wiring

\* the same click with a localStorage that rejects the write
DomConfirmWriteFails ==
    /\ started
    /\ InputPoint
    /\ ~dom.confirmDisabled
    /\ ~gameEnded
    /\ faults < MaxFaults
    /\ score + ConfirmResult.scoreChange > highScore
    /\ domConfirmWaterLevel(TRUE)
    /\ UNCHANGED wiring

\* variation of DomIsSuccess: the error is taken without Math.abs
DomIsSuccess_Signed == IsSuccess(currentWaterLevel - targetWaterLevel, allowedError)
\* handleNextAction() of the page judges the level again:
\* Math.abs(currentWaterLevel - targetWaterLevel) <= allowedError
DomIsSuccess == IsSuccess(ConfirmError(currentWaterLevel, targetWaterLevel), allowedError)

\* the button of the modal is clicked: handleNextAction() of the page
DomHandleNextAction ==
    /\ started
    /\ InputPoint
    /\ dom.modal
    /\ IF gameOver
       THEN /\ \E t \in RandomTargets : resetGame(t)
            /\ ret' = Returned("handleNextAction", "reset", NullResult)
       ELSE IF DomIsSuccess
       THEN /\ round < MaxRound
            /\ round' = round + 1
            /\ \E t \in RandomTargets : startNewRound(round + 1, t)
            /\ UNCHANGED <<score, gameOver>>
            /\ ret' = Returned("handleNextAction", "next", NullResult)
       ELSE /\ retryCurrentRound
            /\ ret' = Returned("handleNextAction", "retry", NullResult)
    /\ dom' = [dom EXCEPT !.modal = FALSE, !.confirmDisabled = TRUE]
    /\ UNCHANGED faults
    /\ UNCHANGED wiring

\* the reset button, or the restart button of the modal, is clicked
DomResetGame ==
    /\ started
    /\ InputPoint
    /\ \E t \in RandomTargets : resetGame(t)
    /\ dom' = [dom EXCEPT !.modal = FALSE, !.confirmDisabled = TRUE]
    /\ ret' = Returned("resetGame", "undefined", NullResult)
    /\ UNCHANGED faults
    /\ UNCHANGED wiring

NextDom ==
    \/ DomConstructorThrows
    \/ DomInit
    \/ DomStartPouring
    \/ DomStopPouring
    \/ DomPour
    \/ DomConfirmWaterLevel
    \/ DomConfirmWriteFails
    \/ DomHandleNextAction
    \/ DomResetGame

SpecDom == InitDom /\ [][NextDom]_vars

\* ------------------------------------------------------------ Main
\* Main (logic.js 271-390) owns a GameLogic of logic.js and a Renderer; it
\* starts the first round in its constructor, calls update() once per frame
\* and maps each touch to the engine.  A touch lies in at most one of the
\* areas the renderer has drawn.
TouchAreas == {"pour", "confirm", "reset", "modal", "none"}

InitMain ==
    /\ Init
    /\ Timed

\* a touch that calls nothing
TouchIgnored ==
    /\ ret' = Returned("handleInputStart", "ignored", NullResult)
    /\ UNCHANGED <<variant, engine, timer, storage, faults, wonRound, dom, wiring,
                   started, pending>>

\* the confirm button: this.game.confirmWaterLevel(), kept if it is a result
TouchConfirm ==
    /\ confirmWaterLevel("none")
    /\ hasResult' = (hasResult \/ ret'.val = "result")
    /\ lastResult' = IF ret'.val = "result" THEN ret'.result ELSE lastResult

\* the button of the modal: this.game.handleNextAction(this.lastResult)
TouchModalButton(prevResult) ==
    /\ handleNextAction(prevResult)
    /\ hasResult' = FALSE
    /\ lastResult' = NullResult
    /\ UNCHANGED <<dom, faults>>

\* variation of handleInputStart: the reset button is served under the modal
handleInputStart_ResetUnderModal(area) ==
    IF hasResult /\ area # "reset"
    THEN IF area = "modal" THEN TouchModalButton(lastResult) ELSE TouchIgnored
    ELSE IF area = "pour" THEN StartPouring
    ELSE IF area = "confirm" THEN TouchConfirm
    ELSE IF area = "reset" THEN ResetGame
    ELSE TouchIgnored
\* variation of handleInputStart: the modal button passes no result
handleInputStart_NoResultPassed(area) ==
    IF hasResult
    THEN IF area = "modal" THEN TouchModalButton(NullResult) ELSE TouchIgnored
    ELSE IF area = "pour" THEN StartPouring
    ELSE IF area = "confirm" THEN TouchConfirm
    ELSE IF area = "reset" THEN ResetGame
    ELSE TouchIgnored
\* handleInputStart(x, y) for a touch in that area
handleInputStart(area) ==
    IF hasResult
    THEN IF area = "modal" THEN TouchModalButton(lastResult) ELSE TouchIgnored
    ELSE IF area = "pour" THEN StartPouring
    ELSE IF area = "confirm" THEN TouchConfirm
    ELSE IF area = "reset" THEN ResetGame
    ELSE TouchIgnored

\* wx.onTouchStart
HandleInputStart ==
    /\ started
    /\ InputPoint
    /\ \E area \in TouchAreas : handleInputStart(area)

\* wx.onTouchEnd: handleInputEnd()
HandleInputEnd == StopPouring

\* Main.start(): the first round
MainStart == StartNewRound

\* drawResultModal(): the condition of the record banner
RecordBanner == newRecordAchieved /\ gameOver

\* Main.loop(): one update() per frame
MainUpdate == Update

NextMain ==
    \/ MainStart
    \/ MainUpdate
    \/ HandleInputStart
    \/ HandleInputEnd

SpecMain == InitMain /\ [][NextMain]_vars

\* ------------------------------------------------------------ judging alone
\* The judgement of confirmWaterLevel() over all targets: a round in progress
\* after the player has poured k frames and released, in the rounds up to
\* JudgeRounds, with the levels within JudgeWindow of the target.  The round
\* was reached by handleNextAction calls that passed a success (the engine
\* does not look at the score then), so the score is still 0.
JudgeRounds == 6
JudgeWindow == 600

JudgeTargets == { 100 * t : t \in 20..90 }

\* the levels k frames of pouring give
PouredLevels(speed) ==
    { Min(k * speed, FullLevel) : k \in 0..MathCeil(FullLevel, speed) }

InitJudge ==
    /\ variant \in {"tiered", "simple"}
    /\ storage \in StoredAtStart
    /\ round \in 1..JudgeRounds
    /\ targetWaterLevel \in JudgeTargets
    /\ pourSpeed = calculatePourSpeed(variant, round)
    /\ allowedError = calculateAllowedError(variant, round)
    /\ currentWaterLevel \in
          { l \in PouredLevels(pourSpeed) : Abs(l - targetWaterLevel) <= JudgeWindow }
    /\ isPouring = FALSE
    /\ attempts \in 0..(maxAttempts - 1)
    /\ score = 0
    /\ highScore = initHighScore(storage)
    /\ highScoreTime = storage.waterGameHighScoreTime
    /\ gameEnded = FALSE
    /\ gameOver = FALSE
    /\ newRecordAchieved = FALSE
    /\ maxPourTime = IF variant = "tiered"
                     THEN calculateMaxPourTime(targetWaterLevel, round) ELSE 0
    /\ remainingPourTime = maxPourTime
    /\ lastUpdateTime = IF variant = "tiered" THEN EpochNow ELSE 0
    /\ timeExpired = FALSE
    /\ dom = NoPage
    /\ faults = 0
    /\ wonRound = FALSE
    /\ hasResult = FALSE
    /\ lastResult = NullResult
    /\ started = TRUE
    /\ pending = NullResult
    /\ ret = Returned("stopPouring", "undefined", NullResult)

NextJudge == ConfirmWaterLevel

SpecJudge == InitJudge /\ [][NextJudge]_vars

\* ------------------------------------------------------------ climbing
\* The difficulty curves over many rounds: the engine is constructed, the first
\* round is started, and handleNextAction() is called with a success again and
\* again (it takes the 'next' branch whatever was played), up to the round
\* CurveRounds, with every target 20..90.
CurveRounds == 40

ClimbNextRound ==
    /\ started
    /\ ~gameOver
    /\ round < CurveRounds
    /\ round' = round + 1
    /\ \E t \in JudgeTargets : startNewRound(round + 1, t)
    /\ UNCHANGED <<score, gameOver, dom, faults>>
    /\ ret' = Returned("handleNextAction", "next", NullResult)
    /\ UNCHANGED wiring

NextClimb == StartNewRound \/ ClimbNextRound

SpecClimb == Init /\ [][NextClimb]_vars

\* ------------------------------------------------------------ properties
\* a step is the call of confirmWaterLevel() on a round that is not finished
AcceptedConfirm == ret'.op = "confirmWaterLevel" /\ ~gameEnded

\* everything the engine holds except isPouring
AllButPouring ==
    <<variant, currentWaterLevel, targetWaterLevel, round, attempts, score,
      highScore, highScoreTime, pourSpeed, allowedError, gameEnded, gameOver,
      newRecordAchieved, timer, storage>>

\* C1: confirmWaterLevel() called while gameEnded is true returns null and
\* leaves score, attempts, gameOver, highScore, currentWaterLevel (and all
\* other fields of the engine and the storage) as they were.
C1_ConfirmIdempotent ==
    [][(ret'.op = "confirmWaterLevel" /\ gameEnded)
         => (ret'.val = "null" /\ UNCHANGED <<engine, timer, storage>>)]_vars

\* a second confirm on a judged round has returned null
C1_Witness ==
    /\ ret.op = "confirmWaterLevel"
    /\ ret.val = "null"
    /\ gameEnded
    /\ attempts > 0

\* C2, as stated: over every operation, clearHighScore() included, highScore
\* after the operation is at least highScore before it.
C2_BestScoreMonotone == [][highScore' >= highScore]_vars

\* C2, amended: every operation other than clearHighScore() leaves highScore
\* at least what it was; clearHighScore() sets it to 0.
C2_BestScoreMonotoneButClear ==
    [][IF ret'.op = "clearHighScore"
       THEN highScore' = 0
       ELSE highScore' >= highScore]_vars

\* a confirm has raised the record above the stored one
C2_Witness ==
    /\ ret.op = "confirmWaterLevel"
    /\ newRecordAchieved
    /\ highScore = score
    /\ highScore > 85

\* C3, as stated: handleNextAction() called with null while no confirm has
\* been accepted since the last round transition changes nothing in the
\* engine and returns a value that is none of 'next', 'retry', 'reset'.
C3_NoResultNoOp ==
    [][(pending.null /\ handleNextAction(NullResult))
         => (ret'.val \notin {"next", "retry", "reset"}
             /\ UNCHANGED <<engine, timer>>)]_vars

\* C4: an accepted confirm judges isSuccess = (error <= allowedError) with
\* error = |currentWaterLevel - targetWaterLevel|; a success awards the
\* integer nearest to 50 + 10*round + (allowedError - error)*10 (halves up)
\* and adds it to the score, a failure awards 0 and leaves the score; the
\* returned error is the error rounded to one decimal.  Round 1, target 50,
\* tolerance 5, level 53 awards 80.
C4_Scoring ==
    [][AcceptedConfirm =>
         LET e == IF currentWaterLevel >= targetWaterLevel
                  THEN currentWaterLevel - targetWaterLevel
                  ELSE targetWaterLevel - currentWaterLevel
             res == ret'.result
             tenfold == 10 * (50 + 10 * round) + (allowedError - e)
         IN  /\ ret'.val = "result"
             /\ ~res.null
             /\ res.isSuccess <=> (e <= allowedError)
             /\ 10 * res.error - 5 <= e /\ e < 10 * res.error + 5
             /\ IF res.isSuccess
                THEN /\ 10 * res.scoreChange - 5 <= tenfold
                     /\ tenfold < 10 * res.scoreChange + 5
                     /\ score' = score + res.scoreChange
                ELSE /\ res.scoreChange = 0
                     /\ score' = score
             /\ IsSuccess(ConfirmError(5300, 5000), 500)
             /\ ScoreChange(1, 500, ConfirmError(5300, 5000)) = 80]_vars

\* a level exactly at the edge of the tolerance has been judged a success
C4_Witness ==
    /\ ret.op = "confirmWaterLevel"
    /\ ret.val = "result"
    /\ ret.result.isSuccess
    /\ Abs(currentWaterLevel - targetWaterLevel) = allowedError
    /\ score = ret.result.scoreChange
    /\ score = 50 + 10 * round

\* C5: an accepted confirm sets gameOver exactly when the judgement is a
\* failure and attempts, after its increment, is at least maxAttempts (3): a
\* success never sets it, a first or second failure never sets it.
C5_GameOverIff ==
    [][AcceptedConfirm =>
         (gameOver' <=> (~ret'.result.isSuccess /\ attempts' >= 3))]_vars

\* the third failure of a round has ended the game
C5_Witness ==
    /\ ret.op = "confirmWaterLevel"
    /\ ~ret.result.isSuccess
    /\ attempts = 3
    /\ gameOver

\* C6: while gameOver is true, handleNextAction() with any argument returns
\* 'reset' and leaves round = 1, score = 0, attempts = 0, gameOver = false,
\* gameEnded = false, currentWaterLevel = 0, a target drawn from 20..90, and
\* highScore as it was.
C6_ResetAfterGameOver ==
    [][(gameOver /\ \E prevResult \in PrevResults : handleNextAction(prevResult))
         => /\ ret'.val = "reset"
            /\ round' = 1
            /\ score' = 0
            /\ attempts' = 0
            /\ ~gameOver'
            /\ ~gameEnded'
            /\ currentWaterLevel' = 0
            /\ targetWaterLevel' \in { 100 * t : t \in 20..90 }
            /\ highScore' = highScore]_vars

\* a game lost in the second round, with points on the board, has been reset
C6_Witness ==
    /\ ret.op = "handleNextAction"
    /\ ret.val = "reset"
    /\ round = 1
    /\ score = 0
    /\ highScore > 85

\* C7: while gameOver is false, handleNextAction() given the result of the
\* confirm just before it returns 'next' with round one higher and attempts 0
\* when that result is a success, and 'retry' with round, target and attempts
\* as they were when it is a failure.
C7_NextOrRetry ==
    [][(~gameOver /\ ~pending.null /\ handleNextAction(pending))
         => IF pending.isSuccess
            THEN /\ ret'.val = "next"
                 /\ round' = round + 1
                 /\ attempts' = 0
            ELSE /\ ret'.val = "retry"
                 /\ UNCHANGED <<round, targetWaterLevel, attempts>>]_vars

\* a won round has been left for the next one, with its award on the board
C7_Witness ==
    /\ ret.op = "handleNextAction"
    /\ ret.val = "next"
    /\ round = 2
    /\ attempts = 0
    /\ score > 0

\* C8: once the first startNewRound() has run, 0 <= currentWaterLevel <= 100
\* and the target is an integer in 20..90.
C8_LevelAndTargetRange ==
    started =>
        /\ 0 <= currentWaterLevel
        /\ currentWaterLevel <= 10000
        /\ targetWaterLevel \in { 100 * t : t \in 20..90 }

\* the pour has run into the limit of the vessel
C8_Witness ==
    /\ started
    /\ currentWaterLevel = 10000
    /\ ~isPouring
    /\ ret.op = "update"

\* C9: under the protocol attempts stays in 0..3; an accepted confirm raises
\* it by exactly 1; it goes back to 0 only by startNewRound() (first round,
\* 'next') or resetGame() ('reset'), and a retry leaves it.
C9_AttemptsCounter ==
    [][/\ attempts' \in 0..3
       /\ AcceptedConfirm => attempts' = attempts + 1
       /\ ~AcceptedConfirm =>
             \/ attempts' = attempts
             \/ /\ attempts' = 0
                /\ \/ ret'.op \in {"startNewRound", "resetGame"}
                   \/ ret'.op = "handleNextAction" /\ ret'.val \in {"next", "reset"}
       /\ ret'.val = "retry" => attempts' = attempts]_vars

\* the third attempt of a round is open after two retries
C9_Witness ==
    /\ ret.op = "handleNextAction"
    /\ ret.val = "retry"
    /\ attempts = 2
    /\ ~gameEnded

\* C10: startPouring() turns isPouring from false to true only when the
\* round is not finished and the countdown has not run out, and changes
\* nothing otherwise; stopPouring() leaves isPouring false and touches nothing
\* else.
C10_PourSwitch ==
    [][/\ ret'.op = "startPouring" =>
             /\ isPouring' = (isPouring \/ (~gameEnded /\ ~timeExpired))
             /\ UNCHANGED AllButPouring
       /\ ret'.op = "stopPouring" =>
             /\ ~isPouring'
             /\ UNCHANGED AllButPouring]_vars

\* startPouring() has been refused because the countdown had run out
C10_Witness ==
    /\ ret.op = "startPouring"
    /\ ~isPouring
    /\ timeExpired
    /\ ~gameEnded

\* C11: the tolerance follows the curve of the variant in every round (simple:
\* max(5 - (r-1)*0.5, 1); tiered: 3 - (r-1)*0.5 up to round 5,
\* max(1 - (r-5)*0.2, 0.1) up to round 10, 0.1 from round 11 on); from one
\* round to the next it never rises, and it never falls below the floor of
\* the variant (1 and 0.1).
C11_ToleranceCurve ==
    [][round' = round + 1 =>
         LET r == round'
             curve == IF variant = "tiered"
                      THEN IF r <= 5 THEN 300 - (r - 1) * 50
                           ELSE IF r <= 10
                           THEN (IF 100 - (r - 5) * 20 > 10 THEN 100 - (r - 5) * 20 ELSE 10)
                           ELSE 10
                      ELSE IF 500 - (r - 1) * 50 > 100 THEN 500 - (r - 1) * 50 ELSE 100
             floor == IF variant = "tiered" THEN 10 ELSE 100
         IN  /\ allowedError' = curve
             /\ allowedError' <= allowedError
             /\ allowedError' >= floor
             /\ allowedError >= floor]_vars

\* the tiered tolerance has come down through both tier boundaries to its floor
C11_Witness ==
    /\ variant = "tiered"
    /\ round = 11
    /\ allowedError = 10
    /\ ret.val = "next"

\* C12: the fill rate follows the curve of the variant in every round (simple:
\* min(0.3 + (r-1)*0.05, 0.8); tiered: bands from 0.5, 0.8, 1.1, 1.4 at rounds
\* 1, 6, 11, 16 with +0.05 per round inside a band, at most 2.5); from one
\* round to the next it never falls, and it never exceeds the ceiling of the
\* variant (0.8 and 2.5).
C12_FillRateCurve ==
    [][round' = round + 1 =>
         LET r == round'
             band == IF r <= 5 THEN 50 + (r - 1) * 5
                     ELSE IF r <= 10 THEN 80 + (r - 6) * 5
                     ELSE IF r <= 15 THEN 110 + (r - 11) * 5
                     ELSE 140 + (r - 16) * 5
             curve == IF variant = "tiered"
                      THEN (IF band < 250 THEN band ELSE 250)
                      ELSE IF 30 + (r - 1) * 5 < 80 THEN 30 + (r - 1) * 5 ELSE 80
             ceiling == IF variant = "tiered" THEN 250 ELSE 80
         IN  /\ pourSpeed' = curve
             /\ pourSpeed' >= pourSpeed
             /\ pourSpeed' <= ceiling
             /\ pourSpeed <= ceiling]_vars

\* the tiered fill rate has run through all bands into its ceiling
C12_Witness ==
    /\ variant = "tiered"
    /\ round = 39
    /\ pourSpeed = 250
    /\ ret.val = "next"

\* C13: in the timed variant every startNewRound() leaves maxPourTime =
\* max(1000, min(ceil(target / fillRate * 1.3 * 10) * 100, 5000)) for the new
\* target and the fill rate of the round, so between 1000 and 5000, and
\* remainingPourTime equal to it; fill rate 1.0 and target 60 give 5000.
C13_TimeBudget ==
    [][(variant = "tiered" /\ (ret'.op = "startNewRound" \/ ret'.val = "next")) =>
         LET tenths == 13 * targetWaterLevel'
             q == tenths \div pourSpeed'
             ceil == IF q * pourSpeed' = tenths THEN q ELSE q + 1
             ms == ceil * 100
             capped == IF ms < 5000 THEN ms ELSE 5000
             budget == IF capped > 1000 THEN capped ELSE 1000
         IN  /\ maxPourTime' = budget
             /\ 1000 <= maxPourTime' /\ maxPourTime' <= 5000
             /\ remainingPourTime' = maxPourTime'
             /\ ~timeExpired'
             /\ calculateMaxPourTime(6000, 10) = 5000]_vars

\* round 10 of the timed variant (fill rate 1.0) has started with target 60
C13_Witness ==
    /\ variant = "tiered"
    /\ round = 10
    /\ pourSpeed = 100
    /\ targetWaterLevel = 6000
    /\ maxPourTime = 5000
    /\ remainingPourTime = 5000

C15_ClearFrame ==
    [][ret'.op = "clearHighScore" =>
         UNCHANGED <<variant, score, round, attempts, targetWaterLevel,
                     currentWaterLevel, isPouring, gameEnded, gameOver,
                     allowedError, pourSpeed, newRecordAchieved, timer>>]_vars

\* the record has been cleared in the middle of a pour, with points on the board
C15_Witness ==
    /\ ret.op = "clearHighScore"
    /\ isPouring
    /\ currentWaterLevel > 0
    /\ score > 0
    /\ highScore = 0

\* C16: retryCurrentRound() sets currentWaterLevel = 0 and gameEnded = false
\* (timed: also remainingPourTime = maxPourTime, timeExpired = false, the
\* clock read anew) and leaves target, round, attempts, allowedError,
\* pourSpeed, maxPourTime, score, highScore and gameOver as they were.
C16_RetryFrame ==
    [][ret'.val = "retry" =>
         /\ currentWaterLevel' = 0
         /\ ~gameEnded'
         /\ variant = "tiered" =>
               /\ remainingPourTime' = maxPourTime
               /\ ~timeExpired'
               /\ lastUpdateTime' = EpochNow
         /\ UNCHANGED <<targetWaterLevel, round, attempts, allowedError, pourSpeed,
                        maxPourTime, score, highScore, gameOver>>]_vars

\* the second failed attempt of the second round has been retried in the timed
\* variant, and the countdown is full again
C16_Witness ==
    /\ ret.val = "retry"
    /\ round = 2
    /\ attempts = 2
    /\ score > 0
    /\ variant = "tiered"
    /\ remainingPourTime = maxPourTime

\* C17, as stated: in every variant a storage that throws is swallowed.  A
\* read that throws at construction still gives an engine (with highScore 0),
\* and an accepted confirm whose write of a new record throws still completes:
\* it gives the same result and leaves the same score, highScore, attempts,
\* gameEnded and gameOver as when the write succeeds.
C17_StorageFailuresSwallowed ==
    [][/\ ret'.op = "constructor" => ret'.val # "throws"
       /\ (ret'.op = "confirmWaterLevel" /\ ~gameEnded /\ faults' > faults) =>
             /\ ret'.val = "result"
             /\ ret'.result = ConfirmResult
             /\ pending' = ConfirmResult
             /\ gameEnded'
             /\ attempts' = attempts + 1
             /\ score' = score + ConfirmResult.scoreChange
             /\ highScore' = score'
             /\ gameOver' = IsGameOver(ConfirmResult.isSuccess, attempts + 1)]_vars

\* C18: in the timed variant no tick, the expiring one included, changes
\* gameEnded, attempts, score or gameOver; the level stays what it was at
\* expiry for as long as the countdown is expired; and a confirm after expiry
\* is accepted: it counts one attempt and judges that level against the
\* target with the round's tolerance.
C18_ExpiryLeavesRoundOpen ==
    [][/\ (Timed /\ ret'.op = "update") =>
             UNCHANGED <<gameEnded, attempts, score, gameOver>>
       /\ (timeExpired /\ timeExpired') =>
             currentWaterLevel' = currentWaterLevel
       /\ (timeExpired /\ ~gameEnded /\ ret'.op = "confirmWaterLevel") =>
             /\ ret'.val = "result"
             /\ gameEnded'
             /\ attempts' = attempts + 1
             /\ currentWaterLevel' = currentWaterLevel
             /\ ret'.result.isSuccess <=>
                    (Abs(currentWaterLevel - targetWaterLevel) <= allowedError)]_vars

\* a confirm after the countdown expired has been accepted with water in the
\* cup, and it succeeded
C18_Witness ==
    /\ Timed
    /\ timeExpired
    /\ ret.op = "confirmWaterLevel"
    /\ ret.val = "result"
    /\ ret.result.isSuccess
    /\ currentWaterLevel > 0

\* C19, as stated: round changes only by rising by one after a confirm of the
\* round has returned isSuccess = true, or by being set to 1; this for every
\* caller of handleNextAction, one that hands in the same result twice
\* included.
C19_RoundRisesOnlyAfterSuccess ==
    [][round' # round =>
          \/ round' = round + 1 /\ wonRound
          \/ round' = 1]_vars

\* C20: once the first round has been started, the tolerance and the fill
\* rate are the variant's curves at the current round, and in round 1 (so
\* after every reset) they are 5 and 0.3 in the simple variant, 3 and 0.5 in
\* the timed one.
C20_DifficultyFollowsRound ==
    started =>
        /\ allowedError = calculateAllowedError(variant, round)
        /\ pourSpeed = calculatePourSpeed(variant, round)
        /\ round = 1 =>
              /\ allowedError = (IF Timed THEN 300 ELSE 500)
              /\ pourSpeed = (IF Timed THEN 50 ELSE 30)

\* a game lost in the simple variant has just been reset: round 1 with
\* tolerance 5 and fill rate 0.3
C20_Witness ==
    /\ ret.op = "handleNextAction"
    /\ ret.val = "reset"
    /\ variant = "simple"
    /\ round = 1
    /\ allowedError = 500
    /\ pourSpeed = 30

\* the operations that start a round or start it again: handleNextAction
\* (next, retry, reset), resetGame and startNewRound
RoundStarters == {"handleNextAction", "resetGame", "startNewRound"}

\* C21: in the timed variant a tick of a round that has not ended, whose
\* elapsed time brings the countdown to 0 or below, sets remainingPourTime to
\* 0, timeExpired to true and isPouring to false, leaves the level as it is
\* even when the pour was running, and returns true; and once timeExpired is
\* true it stays true and the level stays the same until the round is started
\* or started again.
C21_ExpiryTick ==
    [][/\ \A dt \in DeltaTimes :
            (/\ Timed
             /\ ~gameEnded
             /\ remainingPourTime - dt <= 0
             /\ ret'.op = "update"
             /\ TimedUpdate(dt)) =>
                /\ remainingPourTime' = 0
                /\ timeExpired'
                /\ ~isPouring'
                /\ currentWaterLevel' = currentWaterLevel
                /\ ret'.val = "true"
       /\ (timeExpired /\ ret'.op \notin RoundStarters) =>
             /\ timeExpired'
             /\ currentWaterLevel' = currentWaterLevel]_vars

\* the countdown has just expired on a tick, with water in the cup below the
\* target: the pour is stopped and nothing is left of the time
C21_Witness ==
    /\ Timed
    /\ ret.op = "update"
    /\ ret.val = "true"
    /\ timeExpired
    /\ remainingPourTime = 0
    /\ ~isPouring
    /\ ~gameEnded
    /\ currentWaterLevel > 0
    /\ currentWaterLevel < targetWaterLevel

\* the operations that are not a round transition
WithinRound ==
    {"update", "startPouring", "stopPouring", "confirmWaterLevel", "clearHighScore"}

\* C22: once gameEnded is true, a tick returns false, and tick, startPouring,
\* stopPouring, confirmWaterLevel and clearHighScore leave gameEnded true and
\* the level, isPouring (which is false), attempts, score and the remaining
\* time as they are; gameEnded becomes false again only in handleNextAction,
\* resetGame or startNewRound.
C22_EndedRoundFrozen ==
    [][/\ (gameEnded /\ ret'.op \in WithinRound) =>
             /\ gameEnded'
             /\ ~isPouring
             /\ UNCHANGED <<currentWaterLevel, isPouring, attempts, score,
                            remainingPourTime>>
             /\ ret'.op = "update" => ret'.val = "false"
       /\ (gameEnded /\ ~gameEnded') => ret'.op \in RoundStarters]_vars

\* a tick has come in an ended round of the timed variant, with water in the
\* cup and part of the countdown used: it returned false
C22_Witness ==
    /\ gameEnded
    /\ ret.op = "update"
    /\ ret.val = "false"
    /\ Timed
    /\ currentWaterLevel > 0
    /\ remainingPourTime > 0
    /\ remainingPourTime < maxPourTime
    /\ attempts > 0

\* C23: gameOver becomes true only in a confirm judged unsuccessful that
\* uses up the attempts; once true it stays true under tick, startPouring,
\* stopPouring, confirmWaterLevel and clearHighScore, and it becomes false
\* only in resetGame or in a handleNextAction that returns 'reset'; and
\* whenever gameOver is true, gameEnded is true and attempts >= maxAttempts.
C23_GameOverSticky ==
    [][/\ (~gameOver /\ gameOver') =>
             /\ ret'.op = "confirmWaterLevel"
             /\ ret'.val = "result"
             /\ ~ret'.result.isSuccess
             /\ attempts' >= maxAttempts
       /\ (gameOver /\ ret'.op \in WithinRound) => gameOver'
       /\ (gameOver /\ ~gameOver') =>
             \/ ret'.op = "resetGame"
             \/ ret'.op = "handleNextAction" /\ ret'.val = "reset"
       /\ gameOver' => (gameEnded' /\ attempts' >= maxAttempts)]_vars

\* the game is over and the record has been cleared after that: gameOver is
\* still true
C23_Witness ==
    /\ gameOver
    /\ gameEnded
    /\ attempts = maxAttempts
    /\ ret.op = "clearHighScore"
    /\ score > 0

\* C24, as stated: after every accepted confirm, if the score now exceeds the
\* highScore held before the call, then highScore is the score,
\* newRecordAchieved is true and both stored values hold the new record and
\* its time; otherwise highScore, highScoreTime, newRecordAchieved and the
\* stored values are unchanged; so highScore >= score after the call.
C24_RecordOnConfirm ==
    [][AcceptedConfirm =>
          /\ IF score' > highScore
             THEN /\ highScore' = score'
                  /\ newRecordAchieved'
                  /\ highScoreTime' \in {FormatTime(d) : d \in Dates}
                  /\ storage'.waterGameHighScore = NumToString(score')
                  /\ storage'.waterGameHighScoreTime = highScoreTime'
             ELSE UNCHANGED <<highScore, highScoreTime, newRecordAchieved, storage>>
          /\ highScore' >= score']_vars

\* C24, amended: the same, with the stored values holding the new record and
\* its time when no write throws; when the first write throws the storage is
\* as before, when the second throws only the stored score is new.
C24_RecordOnConfirmUnlessThrown ==
    [][AcceptedConfirm =>
          /\ IF score' > highScore
             THEN /\ highScore' = score'
                  /\ newRecordAchieved'
                  /\ highScoreTime' \in {FormatTime(d) : d \in Dates}
                  /\ IF ret'.logged
                     THEN \/ storage' = storage
                          \/ storage' = [storage EXCEPT
                                !.waterGameHighScore = NumToString(score')]
                     ELSE /\ storage'.waterGameHighScore = NumToString(score')
                          /\ storage'.waterGameHighScoreTime = highScoreTime'
             ELSE UNCHANGED <<highScore, highScoreTime, newRecordAchieved, storage>>
          /\ highScore' >= score']_vars

\* a first successful confirm has set a record: the new record and its time
\* are in memory and in the storage, no write having thrown
C24_Witness ==
    /\ ret.op = "confirmWaterLevel"
    /\ ret.val = "result"
    /\ ~ret.logged
    /\ faults = 0
    /\ newRecordAchieved
    /\ highScore = score
    /\ ret.result.scoreChange = score
    /\ storage.waterGameHighScore = NumToString(score)
    /\ storage.waterGameHighScoreTime = highScoreTime
    /\ highScoreTime # ""

\* C25, as stated: newRecordAchieved becomes true only in a confirm judged
\* successful whose award (scoreChange > 0) raises the score above highScore,
\* never in a confirm judged unsuccessful, whatever was called before
\* (clearHighScore included); and it is false after every step that starts a
\* new round.
C25_NewRecordOnlyOnSuccess ==
    [][/\ (~newRecordAchieved /\ newRecordAchieved') =>
             /\ ret'.op = "confirmWaterLevel"
             /\ ret'.val = "result"
             /\ ret'.result.isSuccess
             /\ ret'.result.scoreChange > 0
             /\ score' > highScore
       /\ (ret'.op \in {"startNewRound", "resetGame"}
             \/ (ret'.op = "handleNextAction" /\ ret'.val \in {"next", "reset"})) =>
                ~newRecordAchieved']_vars

\* C26: for a confirm judged successful with error e in round r, the award
\* is at least 50 + 10 r, so the score rises; every smaller error would have
\* given at least that award, and a strictly larger one when it is smaller
\* by 0.1 or more; and for every round q in which e is within the
\* tolerances of q and of q + 1, the award for e in round q + 1 is strictly
\* larger than in round q.  In both variants.
C26_AwardMonotone ==
    [][(AcceptedConfirm /\ ret'.result.isSuccess) =>
          LET e == ConfirmError(currentWaterLevel, targetWaterLevel)
              award == ret'.result.scoreChange
          IN  /\ award >= 50 + 10 * round
              /\ score' = score + award
              /\ score' > score
              /\ \A smaller \in 0..e :
                    /\ ScoreChange(round, allowedError, smaller) >= award
                    /\ smaller + 10 <= e =>
                          ScoreChange(round, allowedError, smaller) > award
              /\ \A q \in 1..CurveRounds :
                    (/\ e <= calculateAllowedError(variant, q)
                     /\ e <= calculateAllowedError(variant, q + 1)) =>
                        ScoreChange(q + 1, calculateAllowedError(variant, q + 1), e)
                          > ScoreChange(q, calculateAllowedError(variant, q), e)]_vars

\* a confirm of round 6 of the timed variant has succeeded with an error
\* that is not 0 and got more than the base score of 110
C26_Witness ==
    /\ ret.op = "confirmWaterLevel"
    /\ ret.val = "result"
    /\ ret.result.isSuccess
    /\ ret.result.error > 0
    /\ Timed
    /\ round = 6
    /\ ret.result.scoreChange > 110
    /\ score = ret.result.scoreChange

\* C27: handleNextAction called in an ended round, whichever of 'next',
\* 'retry' and 'reset' it returns, leaves isPouring false, gameEnded false,
\* the level 0 and, in the timed variant, timeExpired false with the
\* remaining time equal to the time budget.
C27_FreshAfterNextAction ==
    [][(gameEnded /\ ret'.op = "handleNextAction") =>
          /\ ret'.val \in {"next", "retry", "reset"}
          /\ ~isPouring'
          /\ ~gameEnded'
          /\ currentWaterLevel' = 0
          /\ Timed => (~timeExpired' /\ remainingPourTime' = maxPourTime')]_vars

\* the first failed attempt of a round of the timed variant has been retried:
\* the cup is empty and the countdown full
C27_Witness ==
    /\ ret.op = "handleNextAction"
    /\ ret.val = "retry"
    /\ Timed
    /\ attempts = 1
    /\ ~timeExpired
    /\ remainingPourTime = maxPourTime
    /\ currentWaterLevel = 0
    /\ ~gameEnded
    /\ ~isPouring

C29_BudgetConstant ==
    (started /\ Timed) =>
        /\ maxPourTime = 5000
        /\ 13 * targetWaterLevel >= 104 * pourSpeed
        /\ MathCeil(13 * targetWaterLevel, pourSpeed) * 100 >= 10400
        /\ pourSpeed = calculatePourSpeed(variant, round)

\* a round at the largest fill rate, 2.5, has started with the smallest
\* target, 20: the time before the limits is 10400 ms and the budget 5000
C29_Witness ==
    /\ Timed
    /\ started
    /\ pourSpeed = 250
    /\ targetWaterLevel = 2000
    /\ MathCeil(13 * targetWaterLevel, pourSpeed) * 100 = 10400
    /\ maxPourTime = 5000

\* C30, as stated: in the timed variant every round can be won: whatever the
\* round and the target, one of the levels that a pour from the empty cup
\* passes through (n frames of the fill rate, limited to 100) is within the
\* tolerance of the target, so that a confirm at that level succeeds.
C30_EveryRoundWinnable ==
    (started /\ Timed) =>
        \E level \in PouredLevels(pourSpeed) :
            IsSuccess(ConfirmError(level, targetWaterLevel), allowedError)

\* C31: for every accepted confirm in either variant, the result's isSuccess
\* is true exactly when the returned error, rounded to one decimal, is at
\* most allowedError, although the judgement uses the error as it is; and
\* the same holds for that error against the tolerance of every other round.
C31_RoundedErrorAgrees ==
    [][AcceptedConfirm =>
          LET e == ConfirmError(currentWaterLevel, targetWaterLevel)
          IN  /\ ret'.result.isSuccess <=> (e <= allowedError)
              /\ ret'.result.isSuccess <=> (ret'.result.error * 10 <= allowedError)
              /\ \A q \in 1..CurveRounds :
                    (e <= calculateAllowedError(variant, q))
                      <=> (MathRound(e, 10) * 10 <= calculateAllowedError(variant, q))]_vars

\* a confirm has failed by the smallest margin: the error is 0.05 above the
\* tolerance and is returned as the next tenth above it
C31_Witness ==
    /\ ret.op = "confirmWaterLevel"
    /\ ret.val = "result"
    /\ ~ret.result.isSuccess
    /\ Abs(currentWaterLevel - targetWaterLevel) = allowedError + 5
    /\ ret.result.error * 10 = allowedError + 10

\* C32: under Main, once the first round has started, hasResult is true
\* exactly when gameEnded is true (and then lastResult is the result of the
\* confirm that ended the round); while hasResult is true no startPouring,
\* confirmWaterLevel or resetGame is called; and handleNextAction is called
\* only under the modal, with the result of the last accepted confirm that
\* no handleNextAction has been given yet, after which there is none.
C32_ModalFollowsRoundEnd ==
    [][/\ started' => (hasResult' <=> gameEnded')
       /\ hasResult' => (~lastResult'.null /\ lastResult' = pending')
       /\ hasResult =>
             /\ ret'.op \notin {"startPouring", "confirmWaterLevel", "resetGame"}
             /\ ret'.op # "handleNextAction" => UNCHANGED <<engine, storage, wiring>>
       /\ ret'.op = "handleNextAction" =>
             /\ hasResult
             /\ ~pending.null
             /\ lastResult = pending
             /\ handleNextAction(pending)
             /\ ~hasResult'
             /\ pending'.null
       /\ (ret'.op = "confirmWaterLevel" /\ ret'.val = "result") =>
             /\ pending.null
             /\ hasResult'
             /\ lastResult' = ret'.result]_vars

\* a touch has come under the modal of a successful confirm, outside the
\* modal's button: it was ignored
C32_Witness ==
    /\ hasResult
    /\ gameEnded
    /\ lastResult.isSuccess
    /\ ret.op = "handleInputStart"
    /\ ret.val = "ignored"

\* C33: under Main, with no clearHighScore and a stored record that is not
\* negative, score <= highScore after every confirm, and newRecordAchieved
\* and gameOver are never true together, so that the renderer's condition
\* for the record banner of the game-over modal is never met.
C33_NoRecordBannerAtGameOver ==
    [][/\ ret'.op = "confirmWaterLevel" => score' <= highScore'
       /\ ~(newRecordAchieved' /\ gameOver')
       /\ ~RecordBanner']_vars

\* a game that set a record in its first round is over in its second: the
\* modal is shown, the record is the score and no record is announced
C33_Witness ==
    /\ gameOver
    /\ hasResult
    /\ round = 2
    /\ score > 0
    /\ highScore = score
    /\ ~newRecordAchieved

\* C34: in the page every accepted confirm leaves round, attempts, score,
\* gameOver and gameEnded as confirmWaterLevel() of the engine does; the
\* success that handleNextAction() of the page computes again is the
\* isSuccess of the confirm before it; and the step it takes (reset, next
\* round or retry) is the step handleNextAction() of the engine takes when
\* it is given that confirm's result.
C34_PageDecidesAsEngine ==
    [][/\ (ret'.op = "confirmWaterLevel" /\ ~gameEnded) =>
             /\ round' = round
             /\ attempts' = attempts + 1
             /\ score' = score + ConfirmResult.scoreChange
             /\ gameOver' = (gameOver \/ IsGameOver(ConfirmResult.isSuccess, attempts + 1))
             /\ gameEnded'
             /\ ret'.val = "result" => pending' = ConfirmResult
       /\ ret'.op = "handleNextAction" =>
             /\ ~pending.null
             /\ DomIsSuccess <=> pending.isSuccess
             /\ handleNextAction(pending)]_vars

\* the page has gone to its second round after a successful confirm
C34_Witness ==
    /\ variant = "dom"
    /\ ret.op = "handleNextAction"
    /\ ret.val = "next"
    /\ round = 2
    /\ score > 0
    /\ ~dom.modal
    /\ dom.confirmDisabled

\* C35: in the page at most one pour callback is requested at any time, and
\* one is requested only while isPouring is true (it is then the one
\* pourInterval names); the level rises only in pour(), while isPouring is
\* true and the round is not ended, and by at most pourSpeed; so it does not
\* rise after stopPouring() or a confirm.
C35_OnePourCallback ==
    [][/\ dom'.frames <= 1
       /\ dom'.frames = 1 => (isPouring' /\ dom'.live)
       /\ currentWaterLevel' > currentWaterLevel =>
             /\ ret'.op = "pour"
             /\ isPouring
             /\ ~gameEnded
             /\ currentWaterLevel' <= currentWaterLevel + pourSpeed
       /\ ~isPouring => currentWaterLevel' <= currentWaterLevel]_vars

\* the pour of the page has been stopped with water in the cup: no callback
\* is requested any more
C35_Witness ==
    /\ variant = "dom"
    /\ ret.op = "stopPouring"
    /\ ~isPouring
    /\ currentWaterLevel > 0
    /\ dom.frames = 0
    /\ ~dom.live

\* the countdown is within its budget, and expired exactly at 0
TimerConsistent ==
    /\ 0 <= remainingPourTime
    /\ remainingPourTime <= maxPourTime
    /\ timeExpired <=> (remainingPourTime = 0)

\* C36, as stated: in the timed variant, once the first round has started,
\* 0 <= remainingPourTime <= maxPourTime and timeExpired is true exactly
\* when remainingPourTime is 0; every tick of a round that has not ended
\* makes remainingPourTime smaller, and no tick of an ended round does.
C36_TimerCountsDown ==
    [][/\ (Timed /\ started') => TimerConsistent'
       /\ (Timed /\ ret'.op = "update" /\ ~gameEnded) =>
             remainingPourTime' < remainingPourTime
       /\ (Timed /\ ret'.op = "update" /\ gameEnded) =>
             remainingPourTime' = remainingPourTime]_vars

\* C36, amended: the same, with every tick of a round that has not ended
\* taking the elapsed time off remainingPourTime, down to 0 and not
\* further, whether or not the pour runs: it gets smaller when time has
\* elapsed and some was left, and stays as it is when the clock has not
\* moved or the countdown had expired.
C36_TimerCountsDownToZero ==
    [][/\ (Timed /\ started') => TimerConsistent'
       /\ \A dt \in DeltaTimes :
            (Timed /\ ~gameEnded /\ ret'.op = "update" /\ TimedUpdate(dt)) =>
                /\ remainingPourTime' = Max(0, remainingPourTime - dt)
                /\ (dt > 0 /\ remainingPourTime > 0) =>
                      remainingPourTime' < remainingPourTime
                /\ (dt = 0 \/ timeExpired) =>
                      remainingPourTime' = remainingPourTime
       /\ (Timed /\ ret'.op = "update" /\ gameEnded) =>
             remainingPourTime' = remainingPourTime]_vars

\* a tick has taken time off the countdown while nothing was poured
C36_Witness ==
    /\ Timed
    /\ ret.op = "update"
    /\ ret.val = "true"
    /\ ~gameEnded
    /\ ~isPouring
    /\ currentWaterLevel = 0
    /\ remainingPourTime > 0
    /\ remainingPourTime < maxPourTime

\* C37: with a storage that does not throw and holds only what the engine
\* wrote, in every state, from the construction on, the stored record, when
\* there is one, is the decimal string of highScore, and when there is none
\* highScore is 0.
C37_StoredRecordAgrees ==
    IF storage.waterGameHighScore # NoValue
    THEN /\ storage.waterGameHighScore = NumToString(highScore)
         /\ ParseInt(storage.waterGameHighScore) = highScore
    ELSE highScore = 0

\* a confirm has beaten the record an earlier session had stored: the new
\* one is stored in its place
C37_Witness ==
    /\ ret.op = "confirmWaterLevel"
    /\ ret.val = "result"
    /\ newRecordAchieved
    /\ highScore > 85
    /\ storage.waterGameHighScore = NumToString(highScore)
    /\ storage.waterGameHighScoreTime = FormatTime(CHOOSE d \in Dates : TRUE)

====
